---- MODULE Spec2Model ----
(***************************************************************************)
(* Model of read_and_index_with_resolving.py: a workbook of sheets is      *)
(* turned into one JSON document per row, with the foreign keys of the     *)
(* Relation Table replaced by embedded rows of the referenced sheets.      *)
(*                                                                         *)
(* Strings the program converts (sheet names, the sheet selector, cell     *)
(* texts) are sequences of one-character strings, so that strip, split,    *)
(* lower, upper and str are computed.  Column names are only compared for  *)
(* equality and are TLA+ strings.  A Python dict is the sequence of its    *)
(* <<key, value>> items in insertion order.  A cell value is a tagged      *)
(* record: NoneV, S(chars), I(n), O(items) for a dict, A(elems) for a list.*)
(***************************************************************************)
EXTENDS Integers, Sequences, FiniteSets, TLC

\* ------------------------------------------------------------------ bounds
\* most names in a comma-separated sheet selector
MaxReq == 2
\* most rows of the Personen sheet of the workbook
MaxRows == 2
\* nesting depth of the values given to sanitize
MaxDepth == 2

\* ------------------------------------------------------------ str helpers
\* characters in code-point order (the part of ASCII the model uses)
Ascii == <<" ", ",", "-", ".", "0", "1", "2", "3", "4", "5", "6", "7", "8", "9", ";",
           "A", "B", "C", "D", "E", "F", "G", "H", "I", "J", "K", "L", "M",
           "N", "O", "P", "Q", "R", "S", "T", "U", "V", "W", "X", "Y", "Z", "_",
           "a", "b", "c", "d", "e", "f", "g", "h", "i", "j", "k", "l", "m",
           "n", "o", "p", "q", "r", "s", "t", "u", "v", "w", "x", "y", "z", "|">>
Uppers == <<"A", "B", "C", "D", "E", "F", "G", "H", "I", "J", "K", "L", "M",
           "N", "O", "P", "Q", "R", "S", "T", "U", "V", "W", "X", "Y", "Z">>
Lowers == <<"a", "b", "c", "d", "e", "f", "g", "h", "i", "j", "k", "l", "m",
           "n", "o", "p", "q", "r", "s", "t", "u", "v", "w", "x", "y", "z">>
Digits == <<"0", "1", "2", "3", "4", "5", "6", "7", "8", "9">>

Ord(c) == CHOOSE i \in 1..Len(Ascii) : Ascii[i] = c

\* str.lower()
lower(s) == [i \in 1..Len(s) |->
               IF \E j \in 1..Len(Uppers) : Uppers[j] = s[i]
               THEN Lowers[CHOOSE j \in 1..Len(Uppers) : Uppers[j] = s[i]]
               ELSE s[i]]

\* str.upper()
upper(s) == [i \in 1..Len(s) |->
               IF \E j \in 1..Len(Lowers) : Lowers[j] = s[i]
               THEN Uppers[CHOOSE j \in 1..Len(Lowers) : Lowers[j] = s[i]]
               ELSE s[i]]

RECURSIVE lstrip(_)
lstrip(s) == IF s # <<>> /\ Head(s) = " " THEN lstrip(Tail(s)) ELSE s

RECURSIVE rstrip(_)
rstrip(s) == IF s # <<>> /\ s[Len(s)] = " " THEN rstrip(SubSeq(s, 1, Len(s) - 1)) ELSE s

\* str.strip()
strip(s) == rstrip(lstrip(s))

\* s starts with sep
StartsWith(s, sep) == Len(s) >= Len(sep) /\ SubSeq(s, 1, Len(sep)) = sep

\* str.split(sep) for a non-empty sep: the list of the segments between the
\* occurrences of sep, left to right (always at least one segment)
RECURSIVE SplitFrom(_, _, _)
SplitFrom(cur, rest, sep) ==
    IF rest = <<>> THEN <<cur>>
    ELSE IF StartsWith(rest, sep)
         THEN <<cur>> \o SplitFrom(<<>>, SubSeq(rest, Len(sep) + 1, Len(rest)), sep)
         ELSE SplitFrom(Append(cur, Head(rest)), Tail(rest), sep)

split(s, sep) == SplitFrom(<<>>, s, sep)

\* Python's < on str: lexicographic by code point
RECURSIVE StrLess(_, _)
StrLess(a, b) ==
    IF b = <<>> THEN FALSE
    ELSE IF a = <<>> THEN TRUE
    ELSE IF Head(a) = Head(b) THEN StrLess(Tail(a), Tail(b))
    ELSE Ord(Head(a)) < Ord(Head(b))

\* str(n) of a non-negative int
RECURSIVE IntStr(_)
IntStr(n) == IF n < 10 THEN <<Digits[n + 1]>> ELSE IntStr(n \div 10) \o <<Digits[(n % 10) + 1]>>

\* format(n, "0{pad}d")
RECURSIVE ZeroPad(_, _)
ZeroPad(s, pad) == IF Len(s) >= pad THEN s ELSE ZeroPad(<<"0">> \o s, pad)

\* ------------------------------------------------------------------ values
NoneV == [t |-> "none"]
S(chars) == [t |-> "str", s |-> chars]
I(n) == [t |-> "int", n |-> n]
O(items) == [t |-> "obj", f |-> items]
A(elems) == [t |-> "arr", a |-> elems]
\* a tuple
T(elems) == [t |-> "tup", a |-> elems]
\* float("nan"), pd.NA, pd.NaT
NaN == [t |-> "nan"]
NA == [t |-> "NA"]
NaT == [t |-> "nat"]
\* a pd.Timestamp, by its isoformat() text
Timestamp(iso) == [t |-> "ts", iso |-> iso]
\* a NumPy scalar (np.generic), by its item()
Np(item) == [t |-> "np", item |-> item]

EmptyStr == S(<<>>)

\* str(value) of a cell value (None, str or int)
StrOf(v) == IF v.t = "str" THEN v.s
            ELSE IF v.t = "int" THEN IntStr(v.n)
            ELSE <<"N", "o", "n", "e">>

\* ------------------------------------------------------------------- dicts
HasKey(d, k) == \E i \in 1..Len(d) : d[i][1] = k

\* d.get(k, default)
Get(d, k, default) == IF HasKey(d, k) THEN d[CHOOSE i \in 1..Len(d) : d[i][1] = k][2] ELSE default

\* d[k] = v : an existing key keeps its position, a new key goes last
SetItem(d, k, v) == IF HasKey(d, k)
                    THEN [i \in 1..Len(d) |-> IF d[i][1] = k THEN <<k, v>> ELSE d[i]]
                    ELSE Append(d, <<k, v>>)

\* d.pop(k, None)
RECURSIVE Pop(_, _)
Pop(d, k) == IF d = <<>> THEN <<>>
             ELSE IF Head(d)[1] = k THEN Tail(d)
             ELSE <<Head(d)>> \o Pop(Tail(d), k)

\* ------------------------------------------------------------- sheet names
Plaatsnaam == <<"P", "l", "a", "a", "t", "s", "n", "a", "a", "m">>
Personen == <<"P", "e", "r", "s", "o", "n", "e", "n">>
Uitgever_Drukker == <<"U", "i", "t", "g", "e", "v", "e", "r", "_", "D", "r", "u", "k", "k", "e", "r">>
Tijdschriften == <<"T", "i", "j", "d", "s", "c", "h", "r", "i", "f", "t", "e", "n">>
\* sheets of the workbook that SHEET_ORDER does not list
Zaken == <<"Z", "a", "k", "e", "n">>
bijlage == <<"b", "i", "j", "l", "a", "g", "e">>

\* --------------------------------------------------------------- RELATIONS
\* default delimiter for multi-ID cells
SEP == <<";">>
\* a relation spec without a "sep" key
NoSep == <<>>

Rel(fk_col, ref_sheet, ref_id_col, as, many, drop_fk) ==
    [fk_col |-> fk_col, ref_sheet |-> ref_sheet, ref_id_col |-> ref_id_col,
     as |-> as, many |-> many, drop_fk |-> drop_fk, sep |-> NoSep]

RELATIONS_Uitgever_Drukker ==
    <<
       Rel("Eerste_generatie_ID", Personen, "ID_def", "Eerste_generatie_ID", FALSE, TRUE),
       Rel("Tweede_generatie_ID", Personen, "ID_def", "Tweede_generatie_ID", FALSE, TRUE),
       Rel("Plaats1_ID", Plaatsnaam, "Plaats_ID", "Plaats1", FALSE, TRUE),
       Rel("Plaats2_ID", Plaatsnaam, "Plaats_ID", "Plaats2", FALSE, TRUE),
       Rel("Plaats3_ID", Plaatsnaam, "Plaats_ID", "Plaats3", FALSE, TRUE)
    >>

RELATIONS_Tijdschriften ==
    <<
       Rel("Uitgever_ID_nieuw", Uitgever_Drukker, "Uitgever_ID_nieuw", "Uitgever", FALSE, TRUE),
       Rel("Uitgever2_ID_nieuw", Uitgever_Drukker, "Uitgever_ID_nieuw", "Uitgever2", FALSE, TRUE),
       Rel("Drukker_ID_nieuw", Uitgever_Drukker, "Uitgever_ID_nieuw", "Drukker", FALSE, TRUE),
       Rel("Plaats1_ID", Plaatsnaam, "Plaats_ID", "Plaats1", FALSE, TRUE),
       Rel("Plaats2_ID", Plaatsnaam, "Plaats_ID", "Plaats2", FALSE, TRUE),
       Rel("Plaats3_ID", Plaatsnaam, "Plaats_ID", "Plaats3", FALSE, TRUE),
       Rel("Auteur-Redacteur1_ID", Personen, "ID_def", "Auteur_Redacteur1", FALSE, TRUE),
       Rel("Auteur-Redacteur2_ID", Personen, "ID_def", "Auteur_Redacteur2", FALSE, TRUE),
       Rel("Auteur-Redacteur3_ID", Personen, "ID_def", "Auteur_Redacteur3", FALSE, TRUE),
       Rel("Auteur-Redacteur4_ID", Personen, "ID_def", "Auteur_Redacteur4", FALSE, TRUE),
       Rel("Auteur-Redacteur5_ID", Personen, "ID_def", "Auteur_Redacteur5", FALSE, TRUE)
    >>

\* the main sheets of RELATIONS, in the order of the dict
RELATIONS_keys == <<Uitgever_Drukker, Tijdschriften>>

\* RELATIONS[sheet]
RELATIONS(sheet) == IF sheet = Uitgever_Drukker THEN RELATIONS_Uitgever_Drukker
                    ELSE IF sheet = Tijdschriften THEN RELATIONS_Tijdschriften
                    ELSE <<>>

\* sheet in RELATIONS
InRELATIONS(sheet) == \E i \in 1..Len(RELATIONS_keys) : RELATIONS_keys[i] = sheet

\* SHEET_ORDER authored in the reverse order
SHEET_ORDER_reversed == <<Tijdschriften, Uitgever_Drukker, Personen, Plaatsnaam>>

SHEET_ORDER == <<Plaatsnaam, Personen, Uitgever_Drukker, Tijdschriften>>

\* the id columns collected under the sheet that holds the relation instead
\* of the sheet the relation references
NEEDED_INDICES_of_referencing_sheet(sheet) ==
    IF \E i \in 1..Len(RELATIONS_keys) : RELATIONS_keys[i] = sheet
    THEN {RELATIONS(sheet)[j].ref_id_col : j \in 1..Len(RELATIONS(sheet))}
    ELSE {}

\* _infer_needed_indices_from_relations()[sheet]: the id columns by which
\* some relation of RELATIONS references the sheet
NEEDED_INDICES(sheet) ==
    {RELATIONS(RELATIONS_keys[i])[j].ref_id_col :
        <<i, j>> \in {p \in (1..Len(RELATIONS_keys)) \X (1..16) :
                        /\ p[2] <= Len(RELATIONS(RELATIONS_keys[p[1]]))
                        /\ RELATIONS(RELATIONS_keys[p[1]])[p[2]].ref_sheet = sheet}}

\* ------------------------------------------------------------------ errors
NoError == [kind |-> "none", exc |-> "none", names |-> <<>>, available |-> <<>>,
            sheet |-> <<>>, col |-> "", vals |-> <<>>, more |-> FALSE]

\* KeyError(f"Unknown sheet(s): {unknown}. Available: {all_sheets}")
UnknownSheetError(unknown, all_sheets) ==
    [NoError EXCEPT !.kind = "UnknownSheet", !.exc = "KeyError",
                    !.names = unknown, !.available = all_sheets]

\* KeyError(f"Sheet '{sheet}' missing id column '{id_col}'")
SchemaError(sheet, id_col) ==
    [NoError EXCEPT !.kind = "Schema", !.exc = "KeyError", !.sheet = sheet, !.col = id_col]

\* ValueError(f"Duplicate IDs in '{sheet}.{id_col}': {preview}{' ...' if len(dups) > 5 else ''}")
DataIntegrityError(sheet, id_col, dups) ==
    [NoError EXCEPT !.kind = "DataIntegrity", !.exc = "ValueError", !.sheet = sheet,
                    !.col = id_col, !.vals = SubSeq(dups, 1, IF Len(dups) < 5 THEN Len(dups) ELSE 5),
                    !.more = (Len(dups) > 5)]

\* KeyError(f"--single-out '{single_out}' was not processed. Available: {...}")
NotProcessedError(single_out, processed) ==
    [NoError EXCEPT !.kind = "NotProcessed", !.exc = "KeyError",
                    !.sheet = single_out, !.available = processed]

\* pd.read_excel raises ValueError for a worksheet the workbook does not have
ReaderError(sheet) ==
    [NoError EXCEPT !.kind = "Reader", !.exc = "ValueError", !.sheet = sheet]

\* ------------------------------------------------------ tabular source reader
\* name in a list of names
InList(name, list) == \E i \in 1..Len(list) : list[i] = name

\* pd.read_excel(..., dtype=str).fillna("") of one cell: every cell is text,
\* a missing cell is the empty string
RawCell(v) == IF v.t = "none" THEN EmptyStr ELSE S(StrOf(v))

\* df.to_dict(orient="records") of the sheet read with dtype=str
RawRecords(rows) ==
    [i \in 1..Len(rows) |-> [j \in 1..Len(rows[i]) |-> <<rows[i][j][1], RawCell(rows[i][j][2])>>]]

\* rowId numbered from 0, as range(len(df)) would
MainRecords_from_zero(rows) ==
    [i \in 1..Len(rows) |-> <<<<"rowId", I(i - 1)>>>> \o rows[i]]

\* the sheet read by excel_sheet_to_json: cells as they are (missing -> None),
\* with the column rowId = 1..len(df) inserted first
MainRecords(rows) ==
    [i \in 1..Len(rows) |-> <<<<"rowId", I(i)>>>> \o rows[i]]

\* the columns of a sheet (df.columns); a sheet without rows has the columns
\* of its header
Columns(header) == {header[i] : i \in 1..Len(header)}

\* ------------------------------------------------------ ref index builders
\* a Reference Index is a function from the key text to the embedded dict
EmptyIndex == <<>>

\* idx[key] = value
IndexPut(idx, key, value) ==
    [k \in (DOMAIN idx) \cup {key} |-> IF k = key THEN value ELSE idx[k]]

\* the row without the id column, the empty fields and the row identifier
RECURSIVE rowdict_without_id_and_rowId(_, _)
rowdict_without_id_and_rowId(d, id_col) ==
    IF d = <<>> THEN <<>>
    ELSE IF Head(d)[1] # id_col /\ Head(d)[1] # "rowId" /\ Head(d)[2] # EmptyStr
         THEN <<Head(d)>> \o rowdict_without_id_and_rowId(Tail(d), id_col)
         ELSE rowdict_without_id_and_rowId(Tail(d), id_col)

\* {k: v for k, v in d.items() if k != id_col and v != ""}
RECURSIVE rowdict_without_id(_, _)
rowdict_without_id(d, id_col) ==
    IF d = <<>> THEN <<>>
    ELSE IF Head(d)[1] # id_col /\ Head(d)[2] # EmptyStr
         THEN <<Head(d)>> \o rowdict_without_id(Tail(d), id_col)
         ELSE rowdict_without_id(Tail(d), id_col)

\* the loop over the records of build_processed_indices_for_sheet for one id_col
RECURSIVE ProcessedIndexOf(_, _, _)
ProcessedIndexOf(records, id_col, idx) ==
    IF records = <<>> THEN idx
    ELSE LET r == Head(records)
             raw_id == Get(r, id_col, NoneV)
             key == strip(StrOf(raw_id))
         IN  IF raw_id = NoneV \/ raw_id = EmptyStr \/ key = <<>>
             THEN ProcessedIndexOf(Tail(records), id_col, idx)
             ELSE ProcessedIndexOf(Tail(records), id_col,
                                   IndexPut(idx, key, rowdict_without_id(r, id_col)))

\* build_processed_indices_for_sheet: the processed index cache after the call
build_processed_indices_for_sheet(sheet, records, cache) ==
    LET id_cols == NEEDED_INDICES(sheet)
    IN  [k \in (DOMAIN cache) \cup {<<sheet, c>> : c \in id_cols} |->
            IF k[1] = sheet /\ k[2] \in id_cols
            THEN ProcessedIndexOf(records, k[2], EmptyIndex)
            ELSE cache[k]]

\* df[df[id_col].duplicated()][id_col].tolist(): the values that repeat an
\* earlier row's value, in row order
Duplicated(records, id_col) ==
    LET RECURSIVE Dups(_)
        Dups(i) == IF i > Len(records) THEN <<>>
                   ELSE IF \E j \in 1..(i - 1) :
                              Get(records[j], id_col, NoneV) = Get(records[i], id_col, NoneV)
                        THEN <<Get(records[i], id_col, NoneV).s>> \o Dups(i + 1)
                        ELSE Dups(i + 1)
    IN  Dups(1)

\* the dict comprehension of load_raw_ref_index: a later row replaces an
\* earlier one with the same key
RECURSIVE RawIndexOf(_, _, _)
RawIndexOf(records, id_col, idx) ==
    IF records = <<>> THEN idx
    ELSE LET r == Head(records)
         IN  RawIndexOf(Tail(records), id_col,
                        IndexPut(idx, Get(r, id_col, NoneV).s, rowdict_without_id(r, id_col)))

\* ------------------------------------------------------------ SANITIZATION
\* pd.isna(value) of a scalar: None, float NaN, pd.NA, pd.NaT and a NumPy
\* scalar that is NaN
IsNaScalar(v) == \/ v.t \in {"none", "nan", "NA", "nat"}
                 \/ v.t = "np" /\ v.item.t = "nan"

\* the array np.asarray(value, dtype=object) of a list has exactly one
\* element and that element is missing: nested lists and tuples of one
\* element are dimensions of the array
RECURSIVE SingleMissing(_)
SingleMissing(v) == IF v.t \in {"arr", "tup"}
                    THEN Len(v.a) = 1 /\ SingleMissing(v.a[1])
                    ELSE IsNaScalar(v)

\* pd.isna(value) of a list is an array; `if` takes it as true when it has
\* exactly one element and that element is missing (an array of another size
\* is false or raises, and the exception is passed over)
IsNaSingle(v) == v.t = "arr" /\ SingleMissing(v)

\* sanitize with `return t` for lists and tuples alike
RECURSIVE sanitize_tuples_as_lists(_)
sanitize_tuples_as_lists(v) ==
    IF IsNaScalar(v) THEN NoneV
    ELSE IF IsNaSingle(v) THEN NoneV
    ELSE IF v.t = "ts" THEN S(v.iso)
    ELSE IF v.t = "np" THEN v.item
    ELSE IF v.t = "obj"
    THEN O([i \in 1..Len(v.f) |-> <<v.f[i][1], sanitize_tuples_as_lists(v.f[i][2])>>])
    ELSE IF v.t \in {"arr", "tup"}
    THEN A([i \in 1..Len(v.a) |-> sanitize_tuples_as_lists(v.a[i])])
    ELSE v

RECURSIVE sanitize(_)
sanitize(v) ==
    IF IsNaScalar(v) THEN NoneV
    ELSE IF IsNaSingle(v) THEN NoneV
    ELSE IF v.t = "ts" THEN S(v.iso)
    ELSE IF v.t = "np" THEN v.item
    ELSE IF v.t = "obj" THEN O([i \in 1..Len(v.f) |-> <<v.f[i][1], sanitize(v.f[i][2])>>])
    ELSE IF v.t = "arr" THEN A([i \in 1..Len(v.a) |-> sanitize(v.a[i])])
    ELSE IF v.t = "tup" THEN T([i \in 1..Len(v.a) |-> sanitize(v.a[i])])
    ELSE v

\* ------------------------------------------------------- blow-up relations
\* rel.get("sep", default_sep)
SepOf(rel, default_sep) == IF rel.sep = NoSep THEN default_sep ELSE rel.sep

\* dict(id=i, **ref_idx[i])
Embedding(i, ref_idx) == O(<<<<"id", S(i)>>>> \o ref_idx[i])

\* segments kept as they are, without strip()
RECURSIVE StripSegments_untrimmed(_)
StripSegments_untrimmed(segs) ==
    IF segs = <<>> THEN <<>>
    ELSE IF Head(segs) # <<>> /\ strip(Head(segs)) # <<>>
         THEN <<Head(segs)>> \o StripSegments_untrimmed(Tail(segs))
         ELSE StripSegments_untrimmed(Tail(segs))

\* [s.strip() for s in fk_val.split(sep) if s and s.strip()]
RECURSIVE StripSegments(_)
StripSegments(segs) ==
    IF segs = <<>> THEN <<>>
    ELSE IF Head(segs) # <<>> /\ strip(Head(segs)) # <<>>
         THEN <<strip(Head(segs))>> \o StripSegments(Tail(segs))
         ELSE StripSegments(Tail(segs))

\* [dict(id=i, **ref_idx[i]) for i in ids if i in ref_idx]
RECURSIVE EmbedMany(_, _)
EmbedMany(ids, ref_idx) ==
    IF ids = <<>> THEN <<>>
    ELSE IF Head(ids) \in DOMAIN ref_idx
         THEN <<Embedding(Head(ids), ref_idx)>> \o EmbedMany(Tail(ids), ref_idx)
         ELSE EmbedMany(Tail(ids), ref_idx)

\* one relation applied to one row, the foreign key popped only when the key
\* was matched
EmbedRel_pop_when_matched(row, rel, ref_idx, default_sep) ==
    LET raw_val == Get(row, rel.fk_col, EmptyStr)
        fk_val == IF raw_val # NoneV THEN strip(StrOf(raw_val)) ELSE <<>>
        value == IF rel.many
                 THEN A(EmbedMany(StripSegments(split(fk_val, SepOf(rel, default_sep))), ref_idx))
                 ELSE IF fk_val \in DOMAIN ref_idx THEN Embedding(fk_val, ref_idx) ELSE NoneV
        placed == SetItem(row, rel.as, value)
    IN  IF rel.drop_fk /\ value \notin {NoneV, A(<<>>)} THEN Pop(placed, rel.fk_col) ELSE placed

\* the body of the inner loop of embed_relations_into_records: one relation
\* applied to one row
EmbedRel(row, rel, ref_idx, default_sep) ==
    LET raw_val == Get(row, rel.fk_col, EmptyStr)
        fk_val == IF raw_val # NoneV THEN strip(StrOf(raw_val)) ELSE <<>>
        value == IF rel.many
                 THEN A(EmbedMany(StripSegments(split(fk_val, SepOf(rel, default_sep))), ref_idx))
                 ELSE IF fk_val \in DOMAIN ref_idx THEN Embedding(fk_val, ref_idx) ELSE NoneV
        placed == SetItem(row, rel.as, value)
    IN  IF rel.drop_fk THEN Pop(placed, rel.fk_col) ELSE placed

\* all relations applied to one row, in declared order
RECURSIVE EmbedRow(_, _, _, _)
EmbedRow(row, relations, ref_indices, default_sep) ==
    IF relations = <<>> THEN row
    ELSE LET rel == Head(relations)
         IN  EmbedRow(EmbedRel(row, rel, ref_indices[<<rel.ref_sheet, rel.ref_id_col>>], default_sep),
                      Tail(relations), ref_indices, default_sep)

\* the second loop of embed_relations_into_records
EmbedRecords(records, relations, ref_indices, default_sep) ==
    [i \in 1..Len(records) |-> EmbedRow(records[i], relations, ref_indices, default_sep)]

\* -------------------------------------------------------------- Excel helpers
\* order_map.get(name, len(SHEET_ORDER))
OrderOf(name) == IF InList(name, SHEET_ORDER)
                 THEN (CHOOSE i \in 1..Len(SHEET_ORDER) : SHEET_ORDER[i] = name) - 1
                 ELSE Len(SHEET_ORDER)

\* a sort key that compares the names as they are, without lower()
SortKeyLess_case_sensitive(a, b) == \/ OrderOf(a) < OrderOf(b)
                                    \/ OrderOf(a) = OrderOf(b) /\ StrLess(a, b)

\* a sort key that is the position alone, without the name
SortKeyLess_position_only(a, b) == OrderOf(a) < OrderOf(b)

\* sort_key(a) < sort_key(b)
SortKeyLess(a, b) == \/ OrderOf(a) < OrderOf(b)
                     \/ OrderOf(a) = OrderOf(b) /\ StrLess(lower(a), lower(b))

\* sorted() is stable: x goes after every element whose key is not greater
RECURSIVE InsertSorted(_, _)
InsertSorted(l, x) ==
    IF l = <<>> THEN <<x>>
    ELSE IF SortKeyLess(x, Head(l)) THEN <<x>> \o l
    ELSE <<Head(l)>> \o InsertSorted(Tail(l), x)

RECURSIVE SortFrom(_, _)
SortFrom(done, rest) ==
    IF rest = <<>> THEN done ELSE SortFrom(InsertSorted(done, Head(rest)), Tail(rest))

\* sorted(selected, key=sort_key)
sorted(selected) == SortFrom(<<>>, selected)

\* the selected names of _normalize_targets, before validation
Selected(sheet_arg, all_sheets) ==
    IF sheet_arg = NoneV \/ upper(strip(sheet_arg.s)) = <<"A", "L", "L">>
    THEN all_sheets
    ELSE LET parts == split(sheet_arg.s, <<",">>)
         IN  [i \in 1..Len(parts) |-> strip(parts[i])]

\* a validation that reports only the first invalid name
RECURSIVE Unknown_first_only(_, _)
Unknown_first_only(selected, all_sheets) ==
    IF selected = <<>> THEN <<>>
    ELSE IF InList(Head(selected), all_sheets) THEN Unknown_first_only(Tail(selected), all_sheets)
    ELSE <<Head(selected)>>

\* [s for s in selected if s not in all_sheets]
RECURSIVE Unknown(_, _)
Unknown(selected, all_sheets) ==
    IF selected = <<>> THEN <<>>
    ELSE IF InList(Head(selected), all_sheets) THEN Unknown(Tail(selected), all_sheets)
    ELSE <<Head(selected)>> \o Unknown(Tail(selected), all_sheets)

\* ------------------------------------------------------------------- state
VARIABLES
    workbook,               \* the Excel file: sheet_names and, per sheet, header and rows
    sheet_arg,              \* the sheet selector of the command line (NoneV when absent)
    single_out,             \* --single-out (NoneV when absent)
    pc,                     \* position of __main__
    targets,                \* _normalize_targets(excel_file, sheet_arg)
    ti,                     \* index in targets of the sheet of the running loop, from 1
    records,                \* the records of the sheet being processed
    relations,              \* embed_relations_into_records: the relations of the last call
    ref_indices,            \* embed_relations_into_records: <<ref_sheet, ref_id_col>> -> index
    _PROCESSED_SHEETS,      \* sheet -> processed rows
    _PROCESSED_INDEX_CACHE, \* <<sheet, id_col>> -> Reference Index
    _RAW_REF_INDEX_CACHE,   \* <<abs_path, sheet, id_col>> -> Reference Index
    files,                  \* OUT_DIR: file name -> JSON content
    combined_buffer,        \* sheet -> cleaned records
    total_written,
    error,                  \* the exception that ended the run, NoError if none
    raw_reads,              \* history: the raw reference sheets read, in order
    processed_log,          \* history: the sheets excel_sheet_to_json has returned for
    import_log,             \* history: the sheets import_index was called for, in order
    import_outcome          \* what the last call of import_index did

vars == <<workbook, sheet_arg, single_out, pc, targets, ti, records, relations, ref_indices,
          _PROCESSED_SHEETS, _PROCESSED_INDEX_CACHE, _RAW_REF_INDEX_CACHE,
          files, combined_buffer, total_written, error,
          raw_reads, processed_log, import_log, import_outcome>>

inputs == <<workbook, sheet_arg, single_out>>

\* ------------------------------------------------------------------ inputs
excel_file == "data.xlsx"

\* os.path.abspath(xls_path)
abspath(path) == <<"/cwd", path>>

\* cell values of the key column of Personen
KeyCells == {S(<<"P", "1">>), EmptyStr}

\* cell values of the foreign-key columns that reference Personen
FkCells == {S(<<"P", "1", " ">>), EmptyStr}

\* sequences over a set, of length lo..hi
SeqsOf(set, lo, hi) == UNION {[1..n -> set] : n \in lo..hi}

PlaatsnaamSheet ==
    [header |-> <<"Plaats_ID", "Plaatsnaam">>,
     rows |-> << <<<<"Plaats_ID", I(7)>>, <<"Plaatsnaam", S(<<"L", "d">>)>>>>,
                 <<<<"Plaats_ID", S(<<" ", "L", "2">>)>>, <<"Plaatsnaam", EmptyStr>>>> >>]

\* Personen with the given key cells; row i is named "N<i>"
PersonenSheet(keys) ==
    [header |-> <<"ID_def", "Naam">>,
     rows |-> [i \in 1..Len(keys) |-> <<<<"ID_def", keys[i]>>, <<"Naam", S(<<"N">> \o IntStr(i))>>>>]]

\* Personen without its key column
PersonenNoKey ==
    [header |-> <<"Naam">>,
     rows |-> << <<<<"Naam", S(<<"N", "1">>)>>>> >>]

Uitgever_DrukkerSheet(fk) ==
    [header |-> <<"Uitgever_ID_nieuw", "Naam", "Eerste_generatie_ID", "Plaats1_ID">>,
     rows |-> << <<<<"Uitgever_ID_nieuw", S(<<"U", "1">>)>>, <<"Naam", S(<<"u">>)>>,
                   <<"Eerste_generatie_ID", fk>>, <<"Plaats1_ID", I(7)>>>> >>]

TijdschriftenSheet(fk) ==
    [header |-> <<"Titel", "Uitgever_ID_nieuw", "Plaats1_ID", "Auteur-Redacteur1_ID">>,
     rows |-> << <<<<"Titel", S(<<"t">>)>>, <<"Uitgever_ID_nieuw", S(<<"U", "1", " ">>)>>,
                   <<"Plaats1_ID", S(<<"L", "2">>)>>, <<"Auteur-Redacteur1_ID", fk>>>>,
                 <<<<"Titel", S(<<"s">>)>>, <<"Uitgever_ID_nieuw", NoneV>>,
                   <<"Plaats1_ID", I(7)>>, <<"Auteur-Redacteur1_ID", S(<<"P", "1">>)>>>> >>]

ZakenSheet == [header |-> <<"Zaak">>, rows |-> << <<<<"Zaak", S(<<"z">>)>>>> >>]

bijlageSheet == [header |-> <<"Blad">>, rows |-> <<>>]

\* the sheets of a workbook, in the order of the file
FullSheetList == <<Tijdschriften, Zaken, Personen, bijlage, Uitgever_Drukker, Plaatsnaam>>

\* a workbook that lacks the sheet Plaatsnaam
ShortSheetList == <<Personen, Uitgever_Drukker, Tijdschriften>>

Workbook(sheet_names, personen, fk) ==
    [sheet_names |-> sheet_names,
     data |-> [n \in {sheet_names[i] : i \in 1..Len(sheet_names)} |->
                  IF n = Plaatsnaam THEN PlaatsnaamSheet
                  ELSE IF n = Personen THEN personen
                  ELSE IF n = Uitgever_Drukker THEN Uitgever_DrukkerSheet(fk)
                  ELSE IF n = Tijdschriften THEN TijdschriftenSheet(fk)
                  ELSE IF n = Zaken THEN ZakenSheet
                  ELSE bijlageSheet]]

Workbooks ==
    {Workbook(FullSheetList, p, fk) :
        p \in {PersonenSheet(k) : k \in SeqsOf(KeyCells, 1, MaxRows)} \cup {PersonenNoKey},
        fk \in FkCells}
    \cup {Workbook(ShortSheetList, PersonenSheet(<<S(<<"P", "1">>)>>), fk) : fk \in FkCells}

\* the names a selector may list
ReqNames == {Plaatsnaam, Personen, Uitgever_Drukker, Tijdschriften, Zaken, bijlage}

\* ",".join(names)
RECURSIVE Join(_)
Join(names) == IF Len(names) = 1 THEN names[1]
               ELSE names[1] \o <<",">> \o Join(Tail(names))

Selectors == {S(Join(r)) : r \in SeqsOf(ReqNames, 1, MaxReq)}
             \cup {S(<<"A", "L", "L">>), S(<<" ", "a", "l", "l">>), NoneV,
                   S(<<" ">> \o Tijdschriften \o <<" ", ",", " ">> \o Personen)}

SingleOuts == {NoneV, S(Tijdschriften)}

Init ==
    /\ workbook \in Workbooks
    /\ sheet_arg \in Selectors
    /\ single_out \in SingleOuts
    /\ pc = "normalize"
    /\ targets = <<>>
    /\ ti = 1
    /\ records = <<>>
    /\ relations = <<>>
    /\ ref_indices = <<>>
    /\ _PROCESSED_SHEETS = <<>>
    /\ _PROCESSED_INDEX_CACHE = <<>>
    /\ _RAW_REF_INDEX_CACHE = <<>>
    /\ files = <<>>
    /\ combined_buffer = <<>>
    /\ total_written = 0
    /\ error = NoError
    /\ raw_reads = <<>>
    /\ processed_log = <<>>
    /\ import_log = <<>>
    /\ import_outcome = "none"

\* --------------------------------------------------------- reference lookup
\* load_raw_ref_index without the test of the raw index cache: the sheet is
\* read on every call
load_raw_ref_index_uncached(wb, xls_path, sheet, id_col, cache, reads) ==
    LET cache_key == <<abspath(xls_path), sheet, id_col>>
    IN  IF ~InList(sheet, wb.sheet_names)
        THEN [err |-> ReaderError(sheet), idx |-> EmptyIndex, cache |-> cache, reads |-> reads]
        ELSE LET df == RawRecords(wb.data[sheet].rows)
                 read == Append(reads, cache_key)
             IN  IF id_col \notin Columns(wb.data[sheet].header)
                 THEN [err |-> SchemaError(sheet, id_col), idx |-> EmptyIndex,
                       cache |-> cache, reads |-> read]
                 ELSE IF Duplicated(df, id_col) # <<>>
                 THEN [err |-> DataIntegrityError(sheet, id_col, Duplicated(df, id_col)),
                       idx |-> EmptyIndex, cache |-> cache, reads |-> read]
                 ELSE LET idx == RawIndexOf(df, id_col, EmptyIndex)
                      IN  [err |-> NoError, idx |-> idx,
                           cache |-> [k \in (DOMAIN cache) \cup {cache_key} |->
                                         IF k = cache_key THEN idx ELSE cache[k]],
                           reads |-> read]

\* load_raw_ref_index: the index returned (or the exception raised), the raw
\* index cache and the history of reads after the call
load_raw_ref_index(wb, xls_path, sheet, id_col, cache, reads) ==
    LET cache_key == <<abspath(xls_path), sheet, id_col>>
    IN  IF cache_key \in DOMAIN cache
        THEN [err |-> NoError, idx |-> cache[cache_key], cache |-> cache, reads |-> reads]
        ELSE IF ~InList(sheet, wb.sheet_names)
        THEN [err |-> ReaderError(sheet), idx |-> EmptyIndex, cache |-> cache, reads |-> reads]
        ELSE LET df == RawRecords(wb.data[sheet].rows)
                 read == Append(reads, cache_key)
             IN  IF id_col \notin Columns(wb.data[sheet].header)
                 THEN [err |-> SchemaError(sheet, id_col), idx |-> EmptyIndex,
                       cache |-> cache, reads |-> read]
                 ELSE IF Duplicated(df, id_col) # <<>>
                 THEN [err |-> DataIntegrityError(sheet, id_col, Duplicated(df, id_col)),
                       idx |-> EmptyIndex, cache |-> cache, reads |-> read]
                 ELSE LET idx == RawIndexOf(df, id_col, EmptyIndex)
                      IN  [err |-> NoError, idx |-> idx,
                           cache |-> [k \in (DOMAIN cache) \cup {cache_key} |->
                                         IF k = cache_key THEN idx ELSE cache[k]],
                           reads |-> read]

\* a lookup that never uses the processed index
get_best_ref_index_raw_only(wb, xls_path, ref_sheet, ref_id_col, prefer_processed, pcache, cache, reads) ==
    load_raw_ref_index(wb, xls_path, ref_sheet, ref_id_col, cache, reads)

\* get_best_ref_index
get_best_ref_index(wb, xls_path, ref_sheet, ref_id_col, prefer_processed, pcache, cache, reads) ==
    IF prefer_processed /\ <<ref_sheet, ref_id_col>> \in DOMAIN pcache
    THEN [err |-> NoError, idx |-> pcache[<<ref_sheet, ref_id_col>>], cache |-> cache, reads |-> reads]
    ELSE load_raw_ref_index(wb, xls_path, ref_sheet, ref_id_col, cache, reads)

\* the first loop of embed_relations_into_records: ref_indices for the
\* relations, one lookup per (ref_sheet, ref_id_col); stops at an exception
RECURSIVE ResolveIndices(_, _, _, _, _, _, _, _)
ResolveIndices(wb, xls_path, rels, prefer_processed, pcache, indices, cache, reads) ==
    IF rels = <<>>
    THEN [err |-> NoError, ref_indices |-> indices, cache |-> cache, reads |-> reads]
    ELSE LET rel == Head(rels)
             key == <<rel.ref_sheet, rel.ref_id_col>>
         IN  IF key \in DOMAIN indices
             THEN ResolveIndices(wb, xls_path, Tail(rels), prefer_processed, pcache,
                                 indices, cache, reads)
             ELSE LET got == get_best_ref_index(wb, xls_path, rel.ref_sheet, rel.ref_id_col,
                                                prefer_processed, pcache, cache, reads)
                  IN  IF got.err # NoError
                      THEN [err |-> got.err, ref_indices |-> indices,
                            cache |-> got.cache, reads |-> got.reads]
                      ELSE ResolveIndices(wb, xls_path, Tail(rels), prefer_processed, pcache,
                                          [k \in (DOMAIN indices) \cup {key} |->
                                              IF k = key THEN got.idx ELSE indices[k]],
                                          got.cache, got.reads)

\* ---------------------------------------------------------------- __main__
main_sheet == targets[ti]

\* targets = _normalize_targets(excel_file, sheet_arg)
Normalize ==
    /\ pc = "normalize"
    /\ LET all_sheets == workbook.sheet_names
           selected == Selected(sheet_arg, all_sheets)
           unknown == Unknown(selected, all_sheets)
       IN  IF unknown # <<>>
           THEN /\ error' = UnknownSheetError(unknown, all_sheets)
                /\ pc' = "failed"
                /\ UNCHANGED targets
           ELSE /\ targets' = sorted(selected)
                /\ pc' = "read"
                /\ UNCHANGED error
    /\ UNCHANGED <<inputs, ti, records, relations, ref_indices, _PROCESSED_SHEETS, _PROCESSED_INDEX_CACHE,
                   _RAW_REF_INDEX_CACHE, files, combined_buffer, total_written,
                   raw_reads, processed_log, import_log, import_outcome>>

\* excel_sheet_to_json, lines 287-296: read the sheet and number its rows
ReadSheet ==
    /\ pc = "read"
    /\ records' = MainRecords(workbook.data[main_sheet].rows)
    /\ pc' = "embed"
    /\ UNCHANGED <<inputs, targets, ti, relations, ref_indices, _PROCESSED_SHEETS,
                   _PROCESSED_INDEX_CACHE,
                   _RAW_REF_INDEX_CACHE, files, combined_buffer, total_written, error,
                   raw_reads, processed_log, import_log, import_outcome>>

\* embed_relations_into_records with the exception of a reference lookup
\* caught: the records are left without embeddings and the caller goes on
embed_relations_into_records_catching(rels, prefer_processed_refs, next_pc) ==
    LET res == ResolveIndices(workbook, excel_file, rels, prefer_processed_refs,
                              _PROCESSED_INDEX_CACHE, <<>>, _RAW_REF_INDEX_CACHE, raw_reads)
    IN  /\ relations' = rels
        /\ ref_indices' = res.ref_indices
        /\ _RAW_REF_INDEX_CACHE' = res.cache
        /\ raw_reads' = res.reads
        /\ pc' = next_pc
        /\ IF res.err # NoError
           THEN /\ error' = res.err
                /\ UNCHANGED records
           ELSE /\ records' = EmbedRecords(records, rels, res.ref_indices, SEP)
                /\ UNCHANGED error

\* embed_relations_into_records(excel_file, main_sheet, records, rels, SEP,
\* prefer_processed_refs): the records are replaced by the records with the
\* embeddings, or the exception of a reference lookup ends the run
embed_relations_into_records(rels, prefer_processed_refs, next_pc) ==
    LET res == ResolveIndices(workbook, excel_file, rels, prefer_processed_refs,
                              _PROCESSED_INDEX_CACHE, <<>>, _RAW_REF_INDEX_CACHE, raw_reads)
    IN  /\ relations' = rels
        /\ ref_indices' = res.ref_indices
        /\ _RAW_REF_INDEX_CACHE' = res.cache
        /\ raw_reads' = res.reads
        /\ IF res.err # NoError
           THEN /\ error' = res.err
                /\ pc' = "failed"
                /\ UNCHANGED records
           ELSE /\ records' = EmbedRecords(records, rels, res.ref_indices, SEP)
                /\ pc' = next_pc
                /\ UNCHANGED error

\* excel_sheet_to_json, lines 298-307: blow up the relations of the sheet
ResolveRelations ==
    /\ pc = "embed"
    /\ IF InRELATIONS(main_sheet) /\ RELATIONS(main_sheet) # <<>>
       THEN embed_relations_into_records(RELATIONS(main_sheet), TRUE, "cache")
       ELSE /\ pc' = "cache"
            /\ UNCHANGED <<records, relations, ref_indices, error,
                           _RAW_REF_INDEX_CACHE, raw_reads>>
    /\ UNCHANGED <<inputs, targets, ti, _PROCESSED_SHEETS, _PROCESSED_INDEX_CACHE,
                   files, combined_buffer, total_written, processed_log, import_log,
                   import_outcome>>

\* excel_sheet_to_json, lines 309-312: keep the processed records and index them
CacheProcessed ==
    /\ pc = "cache"
    /\ _PROCESSED_SHEETS' = [n \in (DOMAIN _PROCESSED_SHEETS) \cup {main_sheet} |->
                                IF n = main_sheet THEN records ELSE _PROCESSED_SHEETS[n]]
    /\ _PROCESSED_INDEX_CACHE' =
           build_processed_indices_for_sheet(main_sheet, records, _PROCESSED_INDEX_CACHE)
    /\ pc' = "write"
    /\ UNCHANGED <<inputs, targets, ti, records, relations, ref_indices, _RAW_REF_INDEX_CACHE, files,
                   combined_buffer, total_written, error, raw_reads, processed_log, import_log, import_outcome>>

\* ------------------------------------------------------------ output files
\* max(5, len(str(len(records))))
PadOf(n) == IF Len(IntStr(n)) > 5 THEN Len(IntStr(n)) ELSE 5

\* f"{base}-{int(row_id):0{pad}d}.json"
RowFileName(base, row_id, pad) ==
    base \o <<"-">> \o ZeroPad(IntStr(row_id), pad) \o <<".", "j", "s", "o", "n">>

\* sanitize(rec) of a record
Clean(rec) == sanitize(O(rec)).f

\* cleaned_records of excel_sheet_to_json
CleanedRecords(recs) == [i \in 1..Len(recs) |-> Clean(recs[i])]

\* the write loop of excel_sheet_to_json: OUT_DIR after the first n records
\* have been written (a later file of the same name replaces the earlier one)
RECURSIVE WriteRows(_, _, _, _)
WriteRows(fs, sheet, recs, n) ==
    IF n = 0 THEN fs
    ELSE LET before == WriteRows(fs, sheet, recs, n - 1)
             clean == Clean(recs[n])
             row_id == Get(clean, "rowId", I(n)).n
             file_name == RowFileName(lower(sheet), row_id, PadOf(Len(recs)))
         IN  [f \in (DOMAIN before) \cup {file_name} |->
                 IF f = file_name THEN O(clean) ELSE before[f]]

\* the sheet is imported as soon as its rows are written, inside the first loop
WriteDocuments_importing ==
    /\ pc = "write"
    /\ files' = WriteRows(files, main_sheet, records, Len(records))
    /\ total_written' = total_written + Len(records)
    /\ combined_buffer' = SetItem(combined_buffer, main_sheet, CleanedRecords(records))
    /\ processed_log' = Append(processed_log, main_sheet)
    /\ import_log' = Append(import_log, main_sheet)
    /\ IF ti < Len(targets)
       THEN ti' = ti + 1 /\ pc' = "read"
       ELSE ti' = 1 /\ pc' = "single_out"
    /\ UNCHANGED <<inputs, targets, records, relations, ref_indices, _PROCESSED_SHEETS,
                   _PROCESSED_INDEX_CACHE, _RAW_REF_INDEX_CACHE, error, raw_reads,
                   import_outcome>>

\* excel_sheet_to_json, lines 314-335, and the loop body of __main__, lines
\* 397-398: sanitize and write the rows, then account for the sheet
WriteDocuments ==
    /\ pc = "write"
    /\ files' = WriteRows(files, main_sheet, records, Len(records))
    /\ total_written' = total_written + Len(records)
    /\ combined_buffer' = SetItem(combined_buffer, main_sheet, CleanedRecords(records))
    /\ processed_log' = Append(processed_log, main_sheet)
    /\ IF ti < Len(targets)
       THEN ti' = ti + 1 /\ pc' = "read"
       ELSE ti' = 1 /\ pc' = "import"
    /\ UNCHANGED <<inputs, targets, records, relations, ref_indices, _PROCESSED_SHEETS, _PROCESSED_INDEX_CACHE,
                   _RAW_REF_INDEX_CACHE, error, raw_reads, import_log, import_outcome>>

\* glob.glob(f"{OUT_DIR}/{sheet.lower()}-*.json")
Glob(fs, sheet) ==
    {f \in DOMAIN fs :
        /\ StartsWith(f, lower(sheet) \o <<"-">>)
        /\ Len(f) >= Len(sheet) + 6
        /\ SubSeq(f, Len(f) - 4, Len(f)) = <<".", "j", "s", "o", "n">>}

\* the sheets for which the working directory holds an indexer config
\* (indexer-<sheet>-config.toml): the four sheets of SHEET_ORDER
IndexerConfigs == {Plaatsnaam, Personen, Uitgever_Drukker, Tijdschriften}

\* import_index(sheet, es) for the next sheet of the second loop of __main__
ImportIndex ==
    /\ pc = "import"
    /\ LET inputs_ == Glob(files, main_sheet)
       IN  import_outcome' = IF inputs_ = {} THEN "no_files"
                             ELSE IF main_sheet \notin IndexerConfigs THEN "no_config"
                             ELSE "imported"
    /\ import_log' = Append(import_log, main_sheet)
    /\ IF ti < Len(targets)
       THEN ti' = ti + 1 /\ pc' = "import"
       ELSE ti' = 1 /\ pc' = "single_out"
    /\ UNCHANGED <<inputs, targets, records, relations, ref_indices, _PROCESSED_SHEETS, _PROCESSED_INDEX_CACHE,
                   _RAW_REF_INDEX_CACHE, files, combined_buffer, total_written, error,
                   raw_reads, processed_log>>

\* f"{single_out.lower()}.json"
CombinedFileName(sheet) == lower(sheet) \o <<".", "j", "s", "o", "n">>

\* the combined file is written from combined_buffer.get(single_out, []),
\* without the test that the sheet was processed
SingleOut_unchecked ==
    /\ pc = "single_out"
    /\ IF single_out # NoneV /\ single_out.s # <<>>
       THEN /\ files' = [f \in (DOMAIN files) \cup {CombinedFileName(single_out.s)} |->
                            IF f = CombinedFileName(single_out.s)
                            THEN A([i \in 1..Len(Get(combined_buffer, single_out.s, <<>>)) |->
                                       O(Get(combined_buffer, single_out.s, <<>>)[i])])
                            ELSE files[f]]
            /\ pc' = "done"
            /\ UNCHANGED error
       ELSE /\ pc' = "done"
            /\ UNCHANGED <<files, error>>
    /\ UNCHANGED <<inputs, targets, ti, records, relations, ref_indices, _PROCESSED_SHEETS, _PROCESSED_INDEX_CACHE,
                   _RAW_REF_INDEX_CACHE, combined_buffer, total_written,
                   raw_reads, processed_log, import_log, import_outcome>>

\* __main__, lines 404-413: the optional combined file
SingleOut ==
    /\ pc = "single_out"
    /\ IF single_out # NoneV /\ single_out.s # <<>>
       THEN IF ~HasKey(combined_buffer, single_out.s)
            THEN /\ error' = NotProcessedError(single_out.s, [i \in 1..Len(combined_buffer) |->
                                                                 combined_buffer[i][1]])
                 /\ pc' = "failed"
                 /\ UNCHANGED files
            ELSE /\ files' = [f \in (DOMAIN files) \cup {CombinedFileName(single_out.s)} |->
                                 IF f = CombinedFileName(single_out.s)
                                 THEN A([i \in 1..Len(Get(combined_buffer, single_out.s, <<>>)) |->
                                            O(Get(combined_buffer, single_out.s, <<>>)[i])])
                                 ELSE files[f]]
                 /\ pc' = "done"
                 /\ UNCHANGED error
       ELSE /\ pc' = "done"
            /\ UNCHANGED <<files, error>>
    /\ UNCHANGED <<inputs, targets, ti, records, relations, ref_indices, _PROCESSED_SHEETS, _PROCESSED_INDEX_CACHE,
                   _RAW_REF_INDEX_CACHE, combined_buffer, total_written,
                   raw_reads, processed_log, import_log, import_outcome>>

Next ==
    \/ Normalize
    \/ ReadSheet
    \/ ResolveRelations
    \/ CacheProcessed
    \/ WriteDocuments
    \/ ImportIndex
    \/ SingleOut

Spec == Init /\ [][Next]_vars

\* ------------------------------------------- the Relation Resolver on its own
\* embed_relations_into_records called directly, as a test of the resolver
\* does: the records of the sheet Zaken, a relation list of the caller, and
\* the sheet Personen either processed earlier or only in the workbook

\* the relation specs of the caller: Zaken.Persoon_IDs -> Personen.ID_def
EmbedSpecs ==
    {[fk_col |-> "Persoon_IDs", ref_sheet |-> Personen, ref_id_col |-> "ID_def",
      as |-> as, many |-> many, drop_fk |-> drop_fk, sep |-> sep] :
        as \in {"Personen", "Persoon_IDs"}, many \in BOOLEAN, drop_fk \in BOOLEAN,
        sep \in {NoSep, <<"|">>}}

\* a second relation of the list, single-valued
PlaatsRel == Rel("Plaats1_ID", Plaatsnaam, "Plaats_ID", "Plaats1", FALSE, TRUE)

EmbedRelationLists == {<<r>> : r \in EmbedSpecs} \cup {<<r, PlaatsRel>> : r \in EmbedSpecs}

\* cell values of Zaken.Persoon_IDs
EmbedFkCells ==
    {S(<<"P", "1", ";", " ", "P", "2", " ", ";", "P", "9">>),
     S(<<"P", "2", ";", ";", "P", "1", ";", "P", "2">>),
     S(<<"P", "1", "|", "P", "2">>),
     S(<<" ", ";", " ">>),
     S(<<"P", "1">>),
     EmptyStr,
     NoneV}

EmbedPersonen == {PersonenSheet(<<S(<<"P", "1">>), S(<<"P", "2">>)>>),
                  PersonenSheet(<<S(<<"P", "1">>), EmptyStr>>)}

EmbedWorkbook(fk, personen) ==
    [sheet_names |-> <<Zaken, Personen, Plaatsnaam>>,
     data |-> [n \in {Zaken, Personen, Plaatsnaam} |->
                  IF n = Zaken
                  THEN [header |-> <<"Zaak", "Persoon_IDs", "Plaats1_ID">>,
                        rows |-> << <<<<"Zaak", S(<<"z">>)>>, <<"Persoon_IDs", fk>>,
                                      <<"Plaats1_ID", I(7)>>>> >>]
                  ELSE IF n = Personen THEN personen
                  ELSE PlaatsnaamSheet]]

InitEmbed ==
    /\ workbook \in {EmbedWorkbook(fk, p) : fk \in EmbedFkCells, p \in EmbedPersonen}
    /\ sheet_arg = S(Zaken)
    /\ single_out = NoneV
    /\ pc = "call_embed"
    /\ targets = <<Zaken>>
    /\ ti = 1
    /\ records = MainRecords(workbook.data[Zaken].rows)
    /\ relations \in EmbedRelationLists
    /\ ref_indices = <<>>
    /\ \E processed \in BOOLEAN :
          IF processed
          THEN /\ _PROCESSED_SHEETS = [n \in {Personen} |-> MainRecords(workbook.data[Personen].rows)]
               /\ _PROCESSED_INDEX_CACHE =
                     build_processed_indices_for_sheet(
                         Personen, MainRecords(workbook.data[Personen].rows), <<>>)
               /\ processed_log = <<Personen>>
          ELSE /\ _PROCESSED_SHEETS = <<>>
               /\ _PROCESSED_INDEX_CACHE = <<>>
               /\ processed_log = <<>>
    /\ _RAW_REF_INDEX_CACHE = <<>>
    /\ files = <<>>
    /\ combined_buffer = <<>>
    /\ total_written = 0
    /\ error = NoError
    /\ raw_reads = <<>>
    /\ import_log = <<>>
    /\ import_outcome = "none"

\* embed_relations_into_records(excel_file, "Zaken", records, relations,
\* SEP, prefer_processed_refs)
EmbedRelationsCall ==
    /\ pc = "call_embed"
    /\ \E prefer_processed_refs \in BOOLEAN :
          embed_relations_into_records(relations, prefer_processed_refs, "returned")
    /\ UNCHANGED <<inputs, targets, ti, _PROCESSED_SHEETS, _PROCESSED_INDEX_CACHE,
                   files, combined_buffer, total_written, processed_log, import_log,
                   import_outcome>>

NextEmbed == EmbedRelationsCall

SpecEmbed == InitEmbed /\ [][NextEmbed]_vars

\* ------------------------------------------------------ sanitize on its own
\* the write loop of excel_sheet_to_json over one record whose field "v" holds
\* a value of any of the kinds sanitize distinguishes

SanitizeScalars ==
    {NoneV, NaN, NA, NaT, Timestamp(<<"1", "7", "9", "5", "-", "0", "1", "-", "1", "9">>),
     Np(I(3)), Np(NaN), Np(S(<<"x">>)), S(<<"x">>), EmptyStr, I(1)}

\* the values nested at most d deep
RECURSIVE SanitizeValues(_)
SanitizeValues(d) ==
    IF d = 0 THEN SanitizeScalars
    ELSE LET sub == SanitizeValues(d - 1)
         IN  sub \cup {A(<<>>), T(<<>>)}
                 \cup {A(<<x>>) : x \in sub}
                 \cup {T(<<x>>) : x \in sub}
                 \cup {A(<<x, NoneV>>) : x \in sub}
                 \cup {O(<<<<"k", x>>>>) : x \in sub}

InitSanitize ==
    /\ workbook = [sheet_names |-> <<Zaken>>, data |-> [n \in {Zaken} |-> ZakenSheet]]
    /\ sheet_arg = S(Zaken)
    /\ single_out = NoneV
    /\ pc = "call_sanitize"
    /\ targets = <<Zaken>>
    /\ ti = 1
    /\ \E v \in SanitizeValues(MaxDepth) : records = << <<<<"rowId", I(1)>>, <<"v", v>>>> >>
    /\ relations = <<>>
    /\ ref_indices = <<>>
    /\ _PROCESSED_SHEETS = <<>>
    /\ _PROCESSED_INDEX_CACHE = <<>>
    /\ _RAW_REF_INDEX_CACHE = <<>>
    /\ files = <<>>
    /\ combined_buffer = <<>>
    /\ total_written = 0
    /\ error = NoError
    /\ raw_reads = <<>>
    /\ processed_log = <<>>
    /\ import_log = <<>>
    /\ import_outcome = "none"

\* clean = sanitize(rec) for every record, collected in cleaned_records
SanitizeRecords ==
    /\ pc = "call_sanitize"
    /\ combined_buffer' = SetItem(combined_buffer, main_sheet, CleanedRecords(records))
    /\ pc' = "sanitized"
    /\ UNCHANGED <<inputs, targets, ti, records, relations, ref_indices, _PROCESSED_SHEETS,
                   _PROCESSED_INDEX_CACHE, _RAW_REF_INDEX_CACHE, files, total_written, error,
                   raw_reads, processed_log, import_log, import_outcome>>

NextSanitize == SanitizeRecords

SpecSanitize == InitSanitize /\ [][NextSanitize]_vars

\* ================================================================== claims
\* the Relation Resolver has run over the records of the sheet being processed
Resolved == pc \in {"cache", "write"} /\ InRELATIONS(main_sheet)

\* the foreign-key text of relation rel in input row i of the sheet being
\* processed: the cell as text, trimmed; an absent or missing cell is empty
FkText(i, rel) ==
    LET cell == Get(workbook.data[main_sheet].rows[i], rel.fk_col, EmptyStr)
    IN  IF cell = NoneV THEN <<>> ELSE strip(StrOf(cell))

\* the processed rows of sheet a whose key field k holds the text key
ProcessedRowsWithKey(a, k, key) ==
    {j \in 1..Len(_PROCESSED_SHEETS[a]) :
        LET cell == Get(_PROCESSED_SHEETS[a][j], k, NoneV)
        IN  cell # NoneV /\ cell # EmptyStr /\ strip(StrOf(cell)) = key}

\* C1 (cache preference): once the relations of sheet B are resolved, for
\* every relation of B whose reference sheet A was processed earlier in the
\* run, the output field of every row is the embedding {id: key} + the fields
\* of a processed row of A with that key (the row as cached after A's own
\* relations were resolved, rowId included), and it is null only when no
\* processed row of A has the key.
CachePreference ==
    Resolved =>
        \A n \in 1..Len(RELATIONS(main_sheet)) :
            LET rel == RELATIONS(main_sheet)[n]
                a == rel.ref_sheet
                k == rel.ref_id_col
            IN  a \in DOMAIN _PROCESSED_SHEETS =>
                    \A i \in 1..Len(records) :
                        HasKey(records[i], rel.as) =>
                            LET v == Get(records[i], rel.as, NoneV)
                                key == FkText(i, rel)
                                rows == ProcessedRowsWithKey(a, k, key)
                            IN  IF rows = {} THEN v = NoneV
                                ELSE \E j \in rows :
                                        v = O(<<<<"id", S(key)>>>> \o
                                              rowdict_without_id(_PROCESSED_SHEETS[a][j], k))

\* C1 witness: Tijdschriften is resolved after Uitgever_Drukker was processed,
\* and the embedded publisher carries the place that Uitgever_Drukker's own
\* relation resolved, which the raw row does not have
CachePreferenceWitness ==
    /\ Resolved
    /\ main_sheet = Tijdschriften
    /\ Uitgever_Drukker \in DOMAIN _PROCESSED_SHEETS
    /\ LET v == Get(records[1], "Uitgever", NoneV)
       IN  /\ v.t = "obj"
           /\ Get(v.f, "Plaats1", NoneV).t = "obj"
           /\ ~HasKey(v.f, "Plaats1_ID")

\* C2 (dependency order): while a selected sheet S is being processed, every
\* selected sheet T that a relation of S references has been processed and
\* its processed index for the relation's key field is in the cache.
DependencyOrder ==
    pc \in {"read", "embed", "cache", "write"} =>
        \A n \in 1..Len(RELATIONS(main_sheet)) :
            LET rel == RELATIONS(main_sheet)[n]
            IN  InList(rel.ref_sheet, targets) =>
                    /\ InList(rel.ref_sheet, processed_log)
                    /\ <<rel.ref_sheet, rel.ref_id_col>> \in DOMAIN _PROCESSED_INDEX_CACHE

\* C2 witness: the selector names Tijdschriften before the sheet it
\* references, and Tijdschriften is about to be resolved
DependencyOrderWitness ==
    /\ pc = "embed"
    /\ main_sheet = Tijdschriften
    /\ sheet_arg = S(Tijdschriften \o <<",">> \o Uitgever_Drukker)

\* the sheets requested by the selector: all sheets of the workbook for the
\* all-sheets token or no selector, else the trimmed comma-separated names
Requested ==
    IF sheet_arg = NoneV THEN workbook.sheet_names
    ELSE IF upper(strip(sheet_arg.s)) = <<"A", "L", "L">> THEN workbook.sheet_names
    ELSE LET parts == split(sheet_arg.s, <<",">>)
         IN  [i \in 1..Len(parts) |-> strip(parts[i])]

\* how often a name occurs in a list
Count(name, list) == Cardinality({i \in 1..Len(list) : list[i] = name})

\* position of a name in the canonical sheet-order list, 0 if absent
Canon(name) == IF \E i \in 1..4 : SHEET_ORDER[i] = name
               THEN CHOOSE i \in 1..4 : SHEET_ORDER[i] = name
               ELSE 0

\* C3 (processing order rule): the order returned by _normalize_targets holds
\* exactly the requested sheets; the sheets of the canonical list come first,
\* by their position in it, and the other sheets follow in case-insensitive
\* alphabetical order.  (targets is not assigned again, so the order is
\* looked at when _normalize_targets has just returned.)
ProcessingOrderRule ==
    (pc = "read" /\ ti = 1) =>
        LET req == Requested
        IN  /\ Len(targets) = Len(req)
            /\ \A i \in 1..Len(req) : Count(req[i], targets) = Count(req[i], req)
            /\ \A i, j \in 1..Len(targets) :
                  i < j =>
                     LET a == targets[i]
                         b == targets[j]
                     IN  /\ Canon(b) # 0 => (Canon(a) # 0 /\ Canon(a) <= Canon(b))
                         /\ (Canon(a) = 0 /\ Canon(b) = 0) => ~StrLess(lower(b), lower(a))

\* C3 witness: all six sheets of the workbook, the two that the canonical list
\* lacks last, "bijlage" before "Zaken"
ProcessingOrderRuleWitness ==
    /\ pc = "read" /\ ti = 1
    /\ targets = <<Plaatsnaam, Personen, Uitgever_Drukker, Tijdschriften, bijlage, Zaken>>
    /\ workbook.sheet_names = FullSheetList

\* two rows of a sheet of the workbook hold the same non-empty text in a column
SharedKey(sheet, col) ==
    /\ InList(sheet, workbook.sheet_names)
    /\ \E i, j \in 1..Len(workbook.data[sheet].rows) :
          /\ i < j
          /\ HasKey(workbook.data[sheet].rows[i], col)
          /\ Get(workbook.data[sheet].rows[i], col, NoneV) # EmptyStr
          /\ Get(workbook.data[sheet].rows[i], col, NoneV) =
             Get(workbook.data[sheet].rows[j], col, NoneV)

\* the sheets whose relations the run has resolved without an exception
PastResolution(sheet) ==
    \/ InList(sheet, processed_log)
    \/ pc \in {"cache", "write"} /\ main_sheet = sheet

\* C4 (duplicate key detection): a sheet with a relation to a reference sheet
\* in which two rows share a key value never gets past the resolution of its
\* relations, so no document of it is written, and the run that reaches it
\* ends in a Data Integrity Error.
DuplicateKeyDetection ==
    \A m \in 1..Len(RELATIONS_keys) :
        LET sheet == RELATIONS_keys[m]
        IN  \A n \in 1..Len(RELATIONS(sheet)) :
                LET rel == RELATIONS(sheet)[n]
                IN  SharedKey(rel.ref_sheet, rel.ref_id_col) =>
                        /\ ~PastResolution(sheet)
                        /\ Glob(files, sheet) = {}

\* the embedding the claim expects for the text v and the Reference Index idx
\* of a single-valued relation
SingleValued(v, idx) ==
    IF v = <<>> \/ v \notin DOMAIN idx THEN NoneV ELSE O(<<<<"id", S(v)>>>> \o idx[v])

\* C5 (single-valued resolution): after the relations of a sheet are resolved,
\* the output field of every single-valued relation is null when the trimmed
\* foreign-key text is empty or no key of the Reference Index used, and
\* otherwise {id: text} merged with the referenced fields.
SingleValuedResolution ==
    Resolved =>
        \A n \in 1..Len(RELATIONS(main_sheet)) :
            LET rel == RELATIONS(main_sheet)[n]
            IN  \A i \in 1..Len(records) :
                    (~rel.many /\ HasKey(records[i], rel.as)) =>
                        Get(records[i], rel.as, NoneV) =
                            SingleValued(FkText(i, rel),
                                         ref_indices[<<rel.ref_sheet, rel.ref_id_col>>])

\* C7 (output fields exist before caching): when the rows of a sheet with
\* relations have been stored in the Processed Cache, every cached row holds
\* the output field of every relation of the sheet, as null, object or array.
OutputFieldsExist ==
    \A m \in 1..Len(RELATIONS_keys) :
        LET sheet == RELATIONS_keys[m]
        IN  sheet \in DOMAIN _PROCESSED_SHEETS =>
                \A i \in 1..Len(_PROCESSED_SHEETS[sheet]) :
                    \A n \in 1..Len(RELATIONS(sheet)) :
                        /\ HasKey(_PROCESSED_SHEETS[sheet][i], RELATIONS(sheet)[n].as)
                        /\ Get(_PROCESSED_SHEETS[sheet][i], RELATIONS(sheet)[n].as, NoneV).t
                              \in {"none", "obj", "arr"}

\* the row identifiers of a list of rows are 1..n in order, n the number of
\* rows of the sheet in the workbook
RowIds(rows, sheet) ==
    /\ Len(rows) = Len(workbook.data[sheet].rows)
    /\ \A i \in 1..Len(rows) : Get(rows[i], "rowId", NoneV) = I(i)

\* C8 (row identifier invariant): the rows read, the cached rows and the
\* emitted documents of every sheet carry the row identifiers 1..N in input
\* row order, N the number of rows read; one document file per identifier
\* (the files are looked at between two sheets and when all are written).
RowIdentifierInvariant ==
    /\ pc \in {"embed", "cache", "write"} => RowIds(records, main_sheet)
    /\ \A sheet \in DOMAIN _PROCESSED_SHEETS : RowIds(_PROCESSED_SHEETS[sheet], sheet)
    /\ \A b \in 1..Len(combined_buffer) : RowIds(combined_buffer[b][2], combined_buffer[b][1])
    /\ pc \in {"read", "single_out"} =>
          \A b \in 1..Len(combined_buffer) :
              LET sheet == combined_buffer[b][1]
                  n == Len(workbook.data[sheet].rows)
                  docs == Glob(files, sheet)
              IN  /\ Cardinality(docs) = n
                  /\ \A i \in 1..n :
                        \E f \in docs :
                            /\ f = lower(sheet) \o <<"-">> \o ZeroPad(IntStr(i), 5)
                                     \o <<".", "j", "s", "o", "n">>
                            /\ Get(files[f].f, "rowId", NoneV) = I(i)

\* C8 witness: the two rows of Tijdschriften were resolved, cached and written
RowIdentifierWitness ==
    /\ pc = "done"
    /\ InList(Tijdschriften, processed_log)
    /\ Len(_PROCESSED_SHEETS[Tijdschriften]) = 2
    /\ Cardinality(Glob(files, Tijdschriften)) = 2

\* C9 (import after resolution): an index import has started only when every
\* sheet of the processing order has been processed, and the imports follow
\* the order in which the sheets were processed, one per processed sheet.
ImportAfterResolution ==
    /\ import_log # <<>> => processed_log = targets
    /\ Len(import_log) <= Len(processed_log)
    /\ \A i \in 1..Len(import_log) : import_log[i] = processed_log[i]
    /\ pc \in {"single_out", "done"} => import_log = processed_log

\* C9 witness: a finished run that processed and imported several sheets
ImportAfterResolutionWitness ==
    /\ pc = "done"
    /\ Len(import_log) >= 2
    /\ import_outcome = "imported"

\* the requested names that are no sheet of the workbook
Invalid == {Requested[i] : i \in {j \in 1..Len(Requested) : ~InList(Requested[j], workbook.sheet_names)}}

\* C10 (Unknown Sheet Error): a selector that names a sheet the workbook does
\* not have ends the run, at validation, in an Unknown Sheet Error that lists
\* the invalid names and the available sheets; nothing has been processed,
\* written or cached, and nothing happens after the failure.
UnknownSheetFails ==
    [][/\ (pc = "normalize" /\ Invalid # {}) =>
             /\ pc' = "failed"
             /\ error'.kind = "UnknownSheet"
             /\ {error'.names[i] : i \in 1..Len(error'.names)} = Invalid
             /\ error'.available = workbook.sheet_names
             /\ targets' = <<>>
             /\ records' = <<>>
             /\ processed_log' = <<>>
             /\ DOMAIN files' = {}
             /\ DOMAIN _PROCESSED_SHEETS' = {}
             /\ DOMAIN _PROCESSED_INDEX_CACHE' = {}
             /\ DOMAIN _RAW_REF_INDEX_CACHE' = {}
       /\ pc = "failed" => UNCHANGED vars]_vars

\* C10 witness: the run failed on a selector with two invalid names
UnknownSheetWitness ==
    /\ pc = "failed"
    /\ error.kind = "UnknownSheet"
    /\ Cardinality(Invalid) = 2

\* the delimiter of a relation: its own, or ";"
Delimiter(rel) == IF rel.sep = <<>> THEN <<";">> ELSE rel.sep

\* the trimmed segments of the foreign-key text of relation rel in row i
Segments(i, rel) ==
    LET parts == split(FkText(i, rel), Delimiter(rel))
    IN  [j \in 1..Len(parts) |-> strip(parts[j])]

\* C6 (multi-valued resolution): after the resolver has returned, the output
\* field of a multi-valued relation is the array of the embeddings
\* {id: segment} + referenced fields of the trimmed, non-empty segments that
\* are keys of the Reference Index, one per such segment, in segment order.
MultiValuedResolution ==
    pc = "returned" =>
        \A n \in 1..Len(relations) :
            LET rel == relations[n]
                idx == ref_indices[<<rel.ref_sheet, rel.ref_id_col>>]
            IN  \A i \in 1..Len(records) :
                    (rel.many /\ HasKey(records[i], rel.as)) =>
                        LET out == Get(records[i], rel.as, NoneV)
                            segs == Segments(i, rel)
                            kept == {j \in 1..Len(segs) : segs[j] # <<>> /\ segs[j] \in DOMAIN idx}
                        IN  /\ out.t = "arr"
                            /\ Len(out.a) = Cardinality(kept)
                            /\ \A j \in kept :
                                  out.a[Cardinality({x \in kept : x <= j})] =
                                      O(<<<<"id", S(segs[j])>>>> \o idx[segs[j]])

\* C6 witness: "P1; P2 ;P9" with the default delimiter against an index with
\* P1 and P2 gives the embeddings of P1 and P2, in that order
MultiValuedWitness ==
    /\ pc = "returned"
    /\ workbook.data[Zaken].rows[1][2][2] = S(<<"P", "1", ";", " ", "P", "2", " ", ";", "P", "9">>)
    /\ relations[1].many /\ relations[1].sep = NoSep /\ relations[1].as = "Personen"
    /\ LET out == Get(records[1], "Personen", NoneV)
       IN  /\ out.t = "arr"
           /\ Len(out.a) = 2
           /\ Get(out.a[1].f, "id", NoneV) = S(<<"P", "1">>)
           /\ Get(out.a[2].f, "id", NoneV) = S(<<"P", "2">>)
           /\ Get(out.a[2].f, "Naam", NoneV) = S(<<"N", "2">>)

\* a combined-output sheet was designated (`if single_out:`)
Designated == single_out # NoneV /\ single_out.s # <<>>

\* the aggregate collections in OUT_DIR: the sheets of the workbook whose
\* combined file exists
Aggregates == {workbook.sheet_names[i] : i \in
                  {j \in 1..Len(workbook.sheet_names) :
                      CombinedFileName(workbook.sheet_names[j]) \in DOMAIN files}}

\* C11 (combined output): with a designated combined-output sheet, a run in
\* which all sheets were processed ends either with one aggregate collection
\* that holds the cleaned rows of that sheet, all of them and in row order
\* (the sheet was processed), or in a Not Processed Error (it was not); no
\* aggregate exists for a sheet that was not processed.  (Files are only
\* added, so OUT_DIR is looked at when the two loops have ended.)
CombinedOutput ==
    LET aggregates == Aggregates
    IN  /\ pc \in {"single_out", "done", "failed"} =>
              \A n \in aggregates :
                  /\ Designated /\ n = single_out.s
                  /\ pc = "done"
                  /\ InList(n, processed_log)
        /\ (Designated /\ pc = "done") =>
              /\ InList(single_out.s, processed_log)
              /\ aggregates = {single_out.s}
              /\ LET rows == _PROCESSED_SHEETS[single_out.s]
                     doc == files[CombinedFileName(single_out.s)]
                 IN  /\ doc.t = "arr"
                     /\ Len(doc.a) = Len(workbook.data[single_out.s].rows)
                     /\ \A i \in 1..Len(doc.a) :
                           /\ doc.a[i] = sanitize(O(rows[i]))
                           /\ Get(doc.a[i].f, "rowId", NoneV) = I(i)
        /\ (Designated /\ pc = "failed" /\ targets # <<>> /\ processed_log = targets) =>
              /\ error.kind = "NotProcessed"
              /\ ~InList(single_out.s, processed_log)
              /\ aggregates = {}

\* C11 witness: a run that processed several sheets emitted the aggregate of
\* Tijdschriften with its two rows
CombinedOutputWitness ==
    /\ pc = "done"
    /\ Designated
    /\ Len(processed_log) >= 2
    /\ CombinedFileName(Tijdschriften) \in DOMAIN files
    /\ Len(files[CombinedFileName(Tijdschriften)].a) = 2

\* a run whose designated sheet was not among the processed sheets has failed
NotProcessedReached ==
    /\ pc = "failed"
    /\ error.kind = "NotProcessed"
    /\ processed_log # <<>>

\* a step neither rewrites nor changes what the Processed Cache and the
\* secondary indices already hold
CacheEntriesKept ==
    /\ pc = "cache" =>
          /\ main_sheet \notin DOMAIN _PROCESSED_SHEETS
          /\ \A k \in DOMAIN _PROCESSED_INDEX_CACHE : k[1] # main_sheet
    /\ \A n \in DOMAIN _PROCESSED_SHEETS :
          /\ n \in DOMAIN _PROCESSED_SHEETS'
          /\ _PROCESSED_SHEETS'[n] = _PROCESSED_SHEETS[n]
    /\ \A k \in DOMAIN _PROCESSED_INDEX_CACHE :
          /\ k \in DOMAIN _PROCESSED_INDEX_CACHE'
          /\ _PROCESSED_INDEX_CACHE'[k] = _PROCESSED_INDEX_CACHE[k]

\* C12 (write-once Processed Cache): for every accepted selector, the cache
\* entry and the secondary indices of a sheet are written once, by the step
\* that caches the sheet, which finds no entry of the sheet; no later step
\* changes the cached rows or an index entry.
ProcessedCacheWriteOnce == [][CacheEntriesKept]_vars

\* the same for the selectors that name no sheet twice
WriteOnceForDistinctNames ==
    [][(\A i, j \in 1..Len(targets) : targets[i] = targets[j] => i = j) => CacheEntriesKept]_vars

\* a sheet cached for the second time is stored with rows equal to the ones
\* the cache already holds
RewriteStoresEqualRows ==
    (pc = "cache" /\ main_sheet \in DOMAIN _PROCESSED_SHEETS) =>
        _PROCESSED_SHEETS[main_sheet] = records

\* C13 (idempotent sanitization): sanitizing a sanitized value gives the same
\* value, for scalars, missing-value markers, timestamps, NumPy scalars and
\* the mappings, lists and tuples nested from them; the sanitized document of
\* a record is a fixed point of sanitize.
IdempotentSanitization ==
    /\ \A i \in 1..Len(records) :
          LET v == Get(records[i], "v", NoneV)
          IN  sanitize(sanitize(v)) = sanitize(v)
    /\ pc = "sanitized" =>
          \A i \in 1..Len(records) :
              LET doc == O(Get(combined_buffer, main_sheet, <<>>)[i])
              IN  /\ doc = sanitize(O(records[i]))
                  /\ sanitize(doc) = doc

\* C13 witness: a tuple that holds a one-element list of a missing value was
\* sanitized to a tuple that holds null
IdempotentSanitizationWitness ==
    /\ pc = "sanitized"
    /\ LET v == Get(records[1], "v", NoneV)
           clean == Get(Get(combined_buffer, main_sheet, <<>>)[1], "v", NoneV)
       IN  /\ v.t = "tup" /\ Len(v.a) = 1
           /\ v.a[1].t = "arr" /\ Len(v.a[1].a) = 1 /\ v.a[1].a[1] = NaT
           /\ clean = T(<<NoneV>>)

\* the rearrangements of a list of names
Rearranged(names) ==
    {[i \in 1..Len(names) |-> names[p[i]]] :
        p \in {q \in [1..Len(names) -> 1..Len(names)] :
                  \A i, j \in 1..Len(names) : q[i] = q[j] => i = j}}

\* the selector is a comma-separated list of names (not the all-sheets token)
CommaSelector == sheet_arg # NoneV /\ upper(strip(sheet_arg.s)) # <<"A", "L", "L">>

\* C14 (order independent of request order): a comma-separated selector that
\* names the same sheets as the selector of the run, in any other order, gives
\* the processing order of the run, also for the sheets that the canonical
\* sheet-order list lacks.
OrderIndependentOfRequest ==
    (pc = "read" /\ ti = 1 /\ CommaSelector) =>
        \A other \in Rearranged(Requested) :
            LET selected == Selected(S(Join(other)), workbook.sheet_names)
            IN  /\ Unknown(selected, workbook.sheet_names) = <<>>
                /\ sorted(selected) = targets

\* C14 witness: "Zaken,bijlage", two sheets the canonical list lacks, is
\* processed as bijlage, Zaken
OrderIndependentWitness ==
    /\ pc = "read" /\ ti = 1
    /\ Requested = <<Zaken, bijlage>>
    /\ targets = <<bijlage, Zaken>>

\* C15 (duplicate check covers non-empty keys only): a run ends in a Data
\* Integrity Error only when two rows of the reference sheet share a
\* non-empty key value; rows with an empty key field do not make the build of
\* a raw Reference Index fail.
DuplicateCheckNonEmptyOnly ==
    error.kind = "DataIntegrity" =>
        /\ SharedKey(error.sheet, error.col)
        /\ \A i \in 1..Len(error.vals) : error.vals[i] # <<>>

\* a Data Integrity Error whose duplicated values are all the empty text
EmptyKeysReported ==
    /\ error.kind = "DataIntegrity"
    /\ ~SharedKey(error.sheet, error.col)
    /\ \A i \in 1..Len(error.vals) : error.vals[i] = <<>>

\* a Data Integrity Error is raised only for a repeated non-empty key or for
\* a repeated empty key
DuplicateCheckCoversEmptyKeys ==
    error.kind = "DataIntegrity" =>
        \/ SharedKey(error.sheet, error.col)
        \/ /\ error.vals # <<>>
           /\ Cardinality({i \in 1..Len(workbook.data[error.sheet].rows) :
                  Get(workbook.data[error.sheet].rows[i], error.col, NoneV) \in {EmptyStr, NoneV}}) >= 2

\* every key of the Reference Index idx for the key field id_col is trimmed
\* text and no mapped row holds the key field
NormalizedIndex(idx, id_col) ==
    \A key \in DOMAIN idx :
        /\ strip(key) = key
        /\ ~HasKey(idx[key], id_col)

\* C16 (normalized Reference Index keys): in every Reference Index the builder
\* has returned, processed or raw, each key is text without leading or
\* trailing whitespace and the mapped row lacks the key field.
NormalizedIndexKeys ==
    /\ \A k \in DOMAIN _PROCESSED_INDEX_CACHE : NormalizedIndex(_PROCESSED_INDEX_CACHE[k], k[2])
    /\ \A k \in DOMAIN _RAW_REF_INDEX_CACHE : NormalizedIndex(_RAW_REF_INDEX_CACHE[k], k[3])
    /\ \A k \in DOMAIN ref_indices : NormalizedIndex(ref_indices[k], k[2])

\* the same for the processed indices alone, whose keys are non-empty as well
ProcessedIndexKeysNormalized ==
    \A k \in DOMAIN _PROCESSED_INDEX_CACHE :
        /\ NormalizedIndex(_PROCESSED_INDEX_CACHE[k], k[2])
        /\ <<>> \notin DOMAIN _PROCESSED_INDEX_CACHE[k]

\* a raw index holds a key with surrounding whitespace, taken from the cell
\* as it is
RawKeyUntrimmed ==
    \E k \in DOMAIN _RAW_REF_INDEX_CACHE :
        \E key \in DOMAIN _RAW_REF_INDEX_CACHE[k] : strip(key) # key

\* row i of the sheet as the resolver received it
InputRow(i) == MainRecords(workbook.data[main_sheet].rows)[i]

\* the fields of a row that no relation of the call names as source or output
Untouched(row) ==
    LET Other(p) == \A n \in 1..Len(relations) :
                        p[1] # relations[n].fk_col /\ p[1] # relations[n].as
    IN  SelectSeq(row, Other)

\* the resolver has returned from a direct call without an exception
Returned == pc = "returned" /\ error = NoError

\* C17 (foreign-key removal) as stated: the source field of a relation marked
\* for removal is gone from every row, the source field of a relation not marked for removal
\* has the value it had, and the fields no relation names are as they were
ForeignKeyRemovalAsStated ==
    Returned =>
        \A i \in 1..Len(records) :
            /\ \A n \in 1..Len(relations) :
                  LET rel == relations[n]
                  IN  IF rel.drop_fk
                      THEN ~HasKey(records[i], rel.fk_col)
                      ELSE /\ HasKey(records[i], rel.fk_col) = HasKey(InputRow(i), rel.fk_col)
                           /\ Get(records[i], rel.fk_col, NoneV) = Get(InputRow(i), rel.fk_col, NoneV)
            /\ Untouched(records[i]) = Untouched(InputRow(i))

\* C17 (foreign-key removal), amended: the source field of a relation marked
\* for removal is gone from every row, whether the key was matched, unmatched
\* or empty; the source field of a relation not marked for removal has the
\* value it had unless it is the relation's output field as well, and then it
\* holds the embedding; the fields no relation names as source or output are
\* as they were, in their order.
ForeignKeyRemoval ==
    Returned =>
        \A i \in 1..Len(records) :
            /\ \A n \in 1..Len(relations) :
                  LET rel == relations[n]
                      out == Get(records[i], rel.as, NoneV)
                  IN  /\ rel.drop_fk => ~HasKey(records[i], rel.fk_col)
                      /\ (~rel.drop_fk /\ rel.as # rel.fk_col) =>
                            /\ HasKey(records[i], rel.fk_col) = HasKey(InputRow(i), rel.fk_col)
                            /\ Get(records[i], rel.fk_col, NoneV) = Get(InputRow(i), rel.fk_col, NoneV)
                      /\ (~rel.drop_fk /\ rel.as = rel.fk_col) =>
                            /\ HasKey(records[i], rel.fk_col)
                            /\ IF rel.many THEN out.t = "arr" ELSE out.t \in {"none", "obj"}
            /\ Untouched(records[i]) = Untouched(InputRow(i))

\* C17 witness: a relation marked for removal with an unmatched key and
\* another output field: the source field is gone, the output field is null
\* and rowId and Zaak are as they were
ForeignKeyRemovalWitness ==
    /\ Returned
    /\ Len(relations) = 2
    /\ relations[1].drop_fk /\ ~relations[1].many /\ relations[1].as = "Personen"
    /\ Get(InputRow(1), "Persoon_IDs", NoneV) = S(<<"P", "1", "|", "P", "2">>)
    /\ ~HasKey(records[1], "Persoon_IDs")
    /\ Get(records[1], "Personen", EmptyStr) = NoneV
    /\ Untouched(records[1]) = <<<<"rowId", I(1)>>, <<"Zaak", S(<<"z">>)>>>>

\* a relation kept its source field, which is its output field too, and the
\* field holds an embedding instead of the foreign key
SourceReplacedByEmbedding ==
    /\ Returned
    /\ ~relations[1].drop_fk /\ relations[1].as = relations[1].fk_col
    /\ Get(InputRow(1), "Persoon_IDs", NoneV) = S(<<"P", "1">>)
    /\ Get(records[1], "Persoon_IDs", NoneV).t = "obj"

\* C18 (raw index read at most once): no (absolute path, reference sheet,
\* key field) is read from the workbook twice in a run; each raw index of the
\* cache was read once, and the index a sheet resolves against, one per
\* (reference sheet, key field) for all its rows, is the processed index or
\* the cached raw index.
RawIndexReadOnce ==
    /\ \A i, j \in 1..Len(raw_reads) : raw_reads[i] = raw_reads[j] => i = j
    /\ \A k \in DOMAIN _RAW_REF_INDEX_CACHE : Count(k, raw_reads) = 1
    /\ (pc \in {"cache", "write"} /\ InRELATIONS(main_sheet)) =>
          \A k \in DOMAIN ref_indices :
              ref_indices[k] = IF k \in DOMAIN _PROCESSED_INDEX_CACHE
                               THEN _PROCESSED_INDEX_CACHE[k]
                               ELSE _RAW_REF_INDEX_CACHE[<<abspath(excel_file), k[1], k[2]>>]

\* C18 witness: Uitgever_Drukker and Tijdschriften were both resolved against
\* the raw indices of Personen and Plaatsnaam, each read once
RawIndexReadOnceWitness ==
    /\ pc = "done"
    /\ processed_log = <<Uitgever_Drukker, Tijdschriften>>
    /\ raw_reads = <<<<abspath(excel_file), Personen, "ID_def">>,
                     <<abspath(excel_file), Plaatsnaam, "Plaats_ID">>>>

\* some relation of the Relation Table references the sheet by the key field
Referenced(sheet, id_col) ==
    \E m \in 1..Len(RELATIONS_keys) :
        \E n \in 1..Len(RELATIONS(RELATIONS_keys[m])) :
            /\ RELATIONS(RELATIONS_keys[m])[n].ref_sheet = sheet
            /\ RELATIONS(RELATIONS_keys[m])[n].ref_id_col = id_col

\* some relation of the Relation Table references the sheet
ReferencedSheet(sheet) ==
    \E m \in 1..Len(RELATIONS_keys) :
        \E n \in 1..Len(RELATIONS(RELATIONS_keys[m])) :
            RELATIONS(RELATIONS_keys[m])[n].ref_sheet = sheet

\* the processed index cache holds entries only of processed sheets and only
\* for key fields by which a relation references the sheet
OnlyNeededIndices(cache, processed) ==
    \A k \in DOMAIN cache : k[1] \in DOMAIN processed /\ Referenced(k[1], k[2])

\* C19 (secondary indices only where needed): after every step, an entry
\* (sheet, key field) of the processed index cache belongs to a processed
\* sheet that some relation references by that key field; the step that
\* caches a sheet no relation references leaves the processed index cache as
\* it was.
SecondaryIndicesOnlyWhereNeeded ==
    [][/\ OnlyNeededIndices(_PROCESSED_INDEX_CACHE', _PROCESSED_SHEETS')
       /\ (pc = "cache" /\ ~ReferencedSheet(main_sheet)) =>
              /\ main_sheet \in DOMAIN _PROCESSED_SHEETS'
              /\ _PROCESSED_INDEX_CACHE' = _PROCESSED_INDEX_CACHE]_vars

\* C19 witness: Personen and then Tijdschriften were processed; the cache
\* holds the index of Personen by ID_def and nothing of Tijdschriften
SecondaryIndicesWitness ==
    /\ pc = "done"
    /\ processed_log = <<Personen, Tijdschriften>>
    /\ DOMAIN _PROCESSED_INDEX_CACHE = {<<Personen, "ID_def">>}
    /\ DOMAIN _PROCESSED_INDEX_CACHE[<<Personen, "ID_def">>] # {}

\* the object embedded under the output field of a relation holds a rowId
HasRowId(row, rel) == HasKey(Get(row, rel.as, NoneV).f, "rowId")

\* C20 (processed and raw embeddings differ in shape): for a reference sheet
\* without relations of its own, every entry of its processed index holds the
\* rowId of the referenced row and no entry of its raw index holds a rowId;
\* so an object embedded in an emitted document has a rowId exactly when the
\* referenced sheet was processed in the run (it is then processed earlier).
EmbeddingShapeDiffers ==
    /\ \A k \in DOMAIN _PROCESSED_INDEX_CACHE :
          ~InRELATIONS(k[1]) =>
              \A key \in DOMAIN _PROCESSED_INDEX_CACHE[k] :
                  /\ Get(_PROCESSED_INDEX_CACHE[k][key], "rowId", NoneV).t = "int"
                  /\ \E i \in 1..Len(_PROCESSED_SHEETS[k[1]]) :
                        /\ Get(_PROCESSED_SHEETS[k[1]][i], "rowId", NoneV) =
                           Get(_PROCESSED_INDEX_CACHE[k][key], "rowId", NoneV)
                        /\ strip(StrOf(Get(_PROCESSED_SHEETS[k[1]][i], k[2], NoneV))) = key
    /\ \A k \in DOMAIN _RAW_REF_INDEX_CACHE :
          \A key \in DOMAIN _RAW_REF_INDEX_CACHE[k] :
              ~HasKey(_RAW_REF_INDEX_CACHE[k][key], "rowId")
    /\ \A b \in 1..Len(combined_buffer) :
          LET sheet == combined_buffer[b][1]
              docs == combined_buffer[b][2]
          IN  InRELATIONS(sheet) =>
                  \A n \in 1..Len(RELATIONS(sheet)) :
                      LET rel == RELATIONS(sheet)[n]
                      IN  ~InRELATIONS(rel.ref_sheet) =>
                              \A i \in 1..Len(docs) :
                                  Get(docs[i], rel.as, NoneV).t = "obj" =>
                                      (HasRowId(docs[i], rel) <=> InList(rel.ref_sheet, targets))

\* C20 witness: Personen was processed and Plaatsnaam was not; the second
\* document of Tijdschriften embeds a person with rowId and a place without
EmbeddingShapeWitness ==
    /\ pc = "done"
    /\ processed_log = <<Personen, Tijdschriften>>
    /\ LET doc == Get(combined_buffer, Tijdschriften, <<>>)[2]
       IN  /\ Get(doc, "Auteur_Redacteur1", NoneV).t = "obj"
           /\ HasKey(Get(doc, "Auteur_Redacteur1", NoneV).f, "rowId")
           /\ Get(doc, "Plaats1", NoneV).t = "obj"
           /\ ~HasKey(Get(doc, "Plaats1", NoneV).f, "rowId")

\* the exception of a reference lookup that found the key field missing
\* (Schema Error) or a key repeated (Data Integrity Error)
FailedResolution(err) == err.kind \in {"Schema", "DataIntegrity"}

\* C21 (caches unchanged on a failed resolution): the step in which building
\* a raw Reference Index raises a Schema Error or a Data Integrity Error is
\* the resolution of the relations of the running sheet and ends the run;
\* after it the Processed Cache and the processed index cache hold no entry
\* for the running sheet nor for the sheet whose index failed, the raw index
\* cache holds no entry for the failing (path, sheet, key field), the
\* Processed Cache and the processed index cache are as before the step and
\* every earlier entry of the raw index cache is kept, the sheets processed
\* are exactly those before the running one, and no index import has begun;
\* no step follows the failure.
CachesUnchangedOnFailure ==
    [][/\ ~FailedResolution(error)
       /\ FailedResolution(error') =>
              /\ pc = "embed" /\ pc' = "failed"
              /\ targets' = targets /\ ti' = ti
              /\ main_sheet \notin DOMAIN _PROCESSED_SHEETS'
              /\ error'.sheet \notin DOMAIN _PROCESSED_SHEETS'
              /\ \A k \in DOMAIN _PROCESSED_INDEX_CACHE' :
                    k[1] # main_sheet /\ k[1] # error'.sheet
              /\ <<abspath(excel_file), error'.sheet, error'.col>>
                     \notin DOMAIN _RAW_REF_INDEX_CACHE'
              /\ _PROCESSED_SHEETS' = _PROCESSED_SHEETS
              /\ _PROCESSED_INDEX_CACHE' = _PROCESSED_INDEX_CACHE
              /\ \A k \in DOMAIN _RAW_REF_INDEX_CACHE :
                    /\ k \in DOMAIN _RAW_REF_INDEX_CACHE'
                    /\ _RAW_REF_INDEX_CACHE'[k] = _RAW_REF_INDEX_CACHE[k]
              /\ processed_log' = SubSeq(targets, 1, ti - 1)
              /\ DOMAIN _PROCESSED_SHEETS' = {targets[i] : i \in 1..(ti - 1)}
              /\ import_log' = <<>> /\ import_outcome' = "none"
              /\ files' = files /\ combined_buffer' = combined_buffer]_vars

\* C21 witness: the second sheet of the run failed with a Data Integrity
\* Error after the first sheet was processed and cached, and the raw index
\* cache holds the index an earlier relation of the failing sheet has built
CachesUnchangedWitness ==
    /\ pc = "failed"
    /\ error.kind = "DataIntegrity"
    /\ ti = 2
    /\ DOMAIN _PROCESSED_SHEETS = {targets[1]}
    /\ DOMAIN _RAW_REF_INDEX_CACHE # {}

\* a Schema Error ends the run in the same way
SchemaFailureReached ==
    /\ pc = "failed"
    /\ error.kind = "Schema"
    /\ ti = 2
    /\ DOMAIN _PROCESSED_SHEETS = {targets[1]}

====
